---- MODULE Spec2Model ----
(***************************************************************************)
(* The sportradar-proxy edge function                                      *)
(* (supabase/functions/sportradar-proxy/index.ts): a request handler with  *)
(* a module-level cache and a retrying upstream client.  Handlers run on   *)
(* one event loop: the code between two awaits is one atomic step, and     *)
(* several invocations may be suspended at an await at the same time.      *)
(***************************************************************************)
EXTENDS Integers, Sequences, FiniteSets, TLC

(* ------------------------------------------------------------------ *)
(* Program constants                                                  *)
(* ------------------------------------------------------------------ *)
CACHE_TTL == 60000

MAX_RETRIES == 3

RETRY_DELAYS == <<1000, 2000, 4000>>

CACHE_SOFT_CAPACITY == 100

(* ------------------------------------------------------------------ *)
(* Bounds of the model                                                *)
(* ------------------------------------------------------------------ *)
\* Number of invocations that may be suspended at an await at once.
MaxInFlight == 2

\* The instants at which the clock is observed: the start, the end of the
\* first backoff delay, both sides of the TTL limit, and past 2 * TTL.
TimePoints == {0, 1000, CACHE_TTL - 1, CACHE_TTL, 2 * CACHE_TTL + 1}

Slots == 1..MaxInFlight

(* ------------------------------------------------------------------ *)
(* Inputs                                                             *)
(* ------------------------------------------------------------------ *)
Undefined == "undefined"

\* What Deno.env.get('SPORTRADAR_API_KEY') may return.
EnvValues == {Undefined, "sr-secret"}

\* A params object is the sequence of its members in insertion order.
ParamsAB == << <<"a", "1">>, <<"b", "2">> >>

ParamsChoices == {ParamsAB}

EndpointChoices == {Undefined, "", "/matches/live"}

\* A request body: `await req.json()` throws on it, or yields an object
\* whose endpoint and params members the destructuring reads.
Malformed == [malformed |-> TRUE, endpoint |-> Undefined, params |-> <<>>]

Bodies ==
    {Malformed} \cup
    [malformed : {FALSE}, endpoint : EndpointChoices, params : ParamsChoices]

\* What one upstream attempt may end in: an HTTP status, or fetch throws.
\* A fetch that throws has no status.
NetworkError == 0

UpstreamStatuses == {200, 404, 429, 500}

FetchOutcomes == UpstreamStatuses \cup {NetworkError}

\* What `await response.json()` may yield: a parsed value, or it throws.
Unparsable == "Unparsable"

Payloads == {"v1", "v2"}

JsonOutcomes == Payloads \cup {Unparsable}

\* A text is the sequence of its pieces; <<>> is no text.
UpstreamErrorText == <<"upstream error text">>

\* The message of the exception req.json() throws.
BodyErrorMessage == <<"Unexpected token in JSON">>

\* The message of the exception response.json() throws.
JsonErrorMessage == <<"Unexpected end of JSON input">>

\* The message of new Error('SPORTRADAR_API_KEY not configured').
ConfigErrorMessage == <<"SPORTRADAR_API_KEY not configured">>

(* ------------------------------------------------------------------ *)
(* Pure helpers                                                       *)
(* ------------------------------------------------------------------ *)
RECURSIVE JSONStringifyMembers(_)
JSONStringifyMembers(members) ==
    IF members = <<>> THEN <<>>
    ELSE LET m == Head(members)
             rest == Tail(members)
         IN  <<m[1], ":", m[2]>> \o
             (IF rest = <<>> THEN <<>> ELSE <<",">> \o JSONStringifyMembers(rest))

\* JSON.stringify of a params object: the members in insertion order.
JSONStringify(params) == <<"{">> \o JSONStringifyMembers(params) \o <<"}">>

\* Mutant: the key is the endpoint alone.
CacheKeyEndpointOnly(endpoint, params) == <<endpoint, "-">>

\* `${endpoint}-${JSON.stringify(params)}`
CacheKey(endpoint, params) == <<endpoint, "-">> \o JSONStringify(params)

Names(params) == {params[i][1] : i \in 1..Len(params)}

\* { ...params, api_key: API_KEY }: a member already present keeps its place
\* and takes the new value; otherwise the member is appended.
SpreadWithApiKey(params, apiKey) ==
    IF "api_key" \in Names(params)
    THEN [i \in 1..Len(params) |->
            IF params[i][1] = "api_key" THEN <<"api_key", apiKey>> ELSE params[i]]
    ELSE Append(params, <<"api_key", apiKey>>)

\* `https://api.sportradar.com${endpoint}?${urlParams.toString()}`
FullUrl(endpoint, params, apiKey) ==
    [host |-> "api.sportradar.com", path |-> endpoint,
     query |-> SpreadWithApiKey(params, apiKey)]

RECURSIVE QueryText(_)
\* urlParams.toString(): name=value pairs joined by &.
QueryText(query) ==
    IF query = <<>> THEN <<>>
    ELSE <<Head(query)[1], "=", Head(query)[2]>> \o
         (IF Tail(query) = <<>> THEN <<>> ELSE <<"&">> \o QueryText(Tail(query)))

\* The URL as the string handed to fetch.
UrlText(url) == <<"https://", url.host, url.path, "?">> \o QueryText(url.query)

\* The endpoint is pasted into the template literal as it is: a ? or a #
\* in it is a delimiter of the URL like any other.
EndpointPieces(endpoint) ==
    CASE endpoint = "/matches/live#" -> <<"/matches/live", "#">>
      [] endpoint = "/matches/live?api_key=evil#" ->
            <<"/matches/live", "?", "api_key", "=", "evil", "#">>
      [] OTHER -> <<endpoint>>

\* The string handed to fetch, delimiter by delimiter.
UrlPieces(url) ==
    <<"https://", url.host>> \o EndpointPieces(url.path) \o <<"?">> \o QueryText(url.query)

\* The position of the first of the marks in the text, or one past its end.
FirstOf(text, marks) ==
    IF \E i \in 1..Len(text) : text[i] \in marks
    THEN CHOOSE i \in 1..Len(text) :
            text[i] \in marks /\ \A j \in 1..(i - 1) : text[j] \notin marks
    ELSE Len(text) + 1

\* fetch parses the string as a URL: the fragment, from the first #, is
\* not part of the request; the query runs from the first ? to its end.
SentQuery(text) ==
    LET sent == SubSeq(text, 1, FirstOf(text, {"#"}) - 1)
    IN  SubSeq(sent, FirstOf(sent, {"?"}) + 1, Len(sent))

RECURSIVE SearchParams(_)
\* The query as the server reads it: pairs separated by &, name and value
\* separated by the first =.
SearchParams(query) ==
    IF query = <<>> THEN <<>>
    ELSE LET e    == FirstOf(query, {"&"})
             seg  == SubSeq(query, 1, e - 1)
             rest == SubSeq(query, e + 1, Len(query))
             eq   == FirstOf(seg, {"="})
             pair == <<SubSeq(seg, 1, eq - 1), SubSeq(seg, eq + 1, Len(seg))>>
         IN  (IF seg = <<>> THEN <<>> ELSE <<pair>>) \o SearchParams(rest)

\* The message of the exception a failing fetch throws: the runtime may
\* name the URL of the request in it.
FetchErrorMessage(url, namesUrl) ==
    IF namesUrl
    THEN <<"error sending request for url (">> \o UrlText(url) \o <<")">>
    ELSE <<"error sending request">>

\* Mutant: only the empty string counts as a missing credential.
ApiKeyMissingEmptyOnly(apiKey) == apiKey = ""

\* !API_KEY
ApiKeyMissing(apiKey) == apiKey = Undefined \/ apiKey = ""

\* Mutant: only an absent endpoint is rejected, an empty one is not.
EndpointMissingStrict(endpoint) == endpoint = Undefined

\* !endpoint
EndpointMissing(endpoint) == endpoint = Undefined \/ endpoint = ""

\* response.ok
IsOk(status) == status >= 200 /\ status <= 299

\* Mutant: the limit itself still counts as fresh.
IsFreshLax(entry, t) == t - entry.timestamp <= CACHE_TTL

\* Date.now() - cached.timestamp < CACHE_TTL
IsFresh(entry, t) == t - entry.timestamp < CACHE_TTL

\* Mutant: one retry fewer.
ShouldRetryStatusShort(status, attempt) ==
    status = 429 /\ attempt < MAX_RETRIES - 1

\* Mutant: every non-2xx status is retried.
ShouldRetryStatusAny(status, attempt) ==
    ~IsOk(status) /\ attempt < MAX_RETRIES

\* response.status === 429 && attempt < MAX_RETRIES
ShouldRetryStatus(status, attempt) == status = 429 /\ attempt < MAX_RETRIES

\* Mutant: a thrown fetch is given one retry fewer.
ShouldRetryErrorShort(attempt) == attempt < MAX_RETRIES - 1

\* Mutant: a thrown fetch is not retried.
ShouldRetryErrorNever(attempt) == FALSE

\* catch (error) { if (attempt < MAX_RETRIES) ...
ShouldRetryError(attempt) == attempt < MAX_RETRIES

\* Mutant: the schedule is indexed one place too low after the first
\* retry.
RetryDelayLagging(attempt) == RETRY_DELAYS[IF attempt = 0 THEN 1 ELSE attempt]

\* Mutant: every backoff uses the first delay.
RetryDelayFlat(attempt) == RETRY_DELAYS[1]

\* Mutant: the third backoff waits twice as long as scheduled.
RetryDelayLongTail(attempt) ==
    IF attempt = 2 THEN 2 * RETRY_DELAYS[3] ELSE RETRY_DELAYS[attempt + 1]

\* RETRY_DELAYS[attempt], attempt counted from 0
RetryDelay(attempt) == RETRY_DELAYS[attempt + 1]

\* Mutant: the response is not stored.
CacheSetSkipped(c, k, data, t) == c

\* Mutant: the entry is stamped with the start of the epoch, not Date.now().
CacheSetNoStamp(c, k, data, t) ==
    [x \in DOMAIN c \cup {k} |->
        IF x = k THEN [data |-> data, timestamp |-> 0] ELSE c[x]]

\* Mutant: an entry that is still fresh is not replaced.
CacheSetKeepFresh(c, k, data, t) ==
    IF k \in DOMAIN c /\ t - c[k].timestamp < CACHE_TTL
    THEN c
    ELSE [x \in DOMAIN c \cup {k} |->
            IF x = k THEN [data |-> data, timestamp |-> t] ELSE c[x]]

\* cache.set(cacheKey, { data, timestamp: Date.now() })
CacheSet(c, k, data, t) ==
    [x \in DOMAIN c \cup {k} |->
        IF x = k THEN [data |-> data, timestamp |-> t] ELSE c[x]]

\* Mutant: no sweep.
CacheCleanupSkipped(c, t) == c

\* Mutant: the sweep uses the freshness limit, not twice the limit.
CacheCleanupAtTTL(c, t) ==
    IF Cardinality(DOMAIN c) > CACHE_SOFT_CAPACITY
    THEN LET keep == {x \in DOMAIN c : ~(t - c[x].timestamp > CACHE_TTL)}
         IN  [x \in keep |-> c[x]]
    ELSE c

\* Mutant: the sweep already runs when the cache is at its capacity.
CacheCleanupAtCapacity(c, t) ==
    IF Cardinality(DOMAIN c) >= CACHE_SOFT_CAPACITY
    THEN LET keep == {x \in DOMAIN c : ~(t - c[x].timestamp > CACHE_TTL * 2)}
         IN  [x \in keep |-> c[x]]
    ELSE c

\* if (cache.size > 100) delete every entry with now - timestamp > CACHE_TTL * 2
CacheCleanup(c, t) ==
    IF Cardinality(DOMAIN c) > CACHE_SOFT_CAPACITY
    THEN LET keep == {x \in DOMAIN c : ~(t - c[x].timestamp > CACHE_TTL * 2)}
         IN  [x \in keep |-> c[x]]
    ELSE c

(* ------------------------------------------------------------------ *)
(* Responses                                                          *)
(* ------------------------------------------------------------------ *)
None == "none"

NoResponse ==
    [status |-> 0, cors |-> FALSE, xcache |-> None, error |-> <<>>,
     message |-> <<>>, endpoint |-> None, data |-> None]

\* new Response(null, { headers: corsHeaders })
PreflightResponse ==
    [status |-> 200, cors |-> TRUE, xcache |-> None, error |-> <<>>,
     message |-> <<>>, endpoint |-> None, data |-> None]

\* 400 { error: 'Endpoint is required' }
MissingEndpointResponse ==
    [status |-> 400, cors |-> TRUE, xcache |-> None, error |-> <<"Endpoint is required">>,
     message |-> <<>>, endpoint |-> None, data |-> None]

\* Mutant: the response served from the cache is labelled like a fetched one.
HitResponseLabelledMiss(data) ==
    [status |-> 200, cors |-> TRUE, xcache |-> "MISS", error |-> <<>>,
     message |-> <<>>, endpoint |-> None, data |-> data]

\* JSON.stringify(cached.data), X-Cache: HIT
HitResponse(data) ==
    [status |-> 200, cors |-> TRUE, xcache |-> "HIT", error |-> <<>>,
     message |-> <<>>, endpoint |-> None, data |-> data]

\* JSON.stringify(data), X-Cache: MISS
MissResponse(data) ==
    [status |-> 200, cors |-> TRUE, xcache |-> "MISS", error |-> <<>>,
     message |-> <<>>, endpoint |-> None, data |-> data]

\* Mutant: every upstream failure is answered 502.
UpstreamErrorResponseBadGateway(status, text, endpoint) ==
    [status |-> 502, cors |-> TRUE, xcache |-> None, error |-> <<"API Error: ", status>>,
     message |-> text, endpoint |-> endpoint, data |-> None]

\* status: response.status, { error: `API Error: ${status}`, message, endpoint }
UpstreamErrorResponse(status, text, endpoint) ==
    [status |-> status, cors |-> TRUE, xcache |-> None, error |-> <<"API Error: ", status>>,
     message |-> text, endpoint |-> endpoint, data |-> None]

\* catch (error): 500 { error: 'Proxy error', message: error.message }
ProxyErrorResponse(message) ==
    [status |-> 500, cors |-> TRUE, xcache |-> None, error |-> <<"Proxy error">>,
     message |-> message, endpoint |-> None, data |-> None]

(* ------------------------------------------------------------------ *)
(* State                                                              *)
(* ------------------------------------------------------------------ *)
VARIABLES
    now,       \* Date.now()
    cache,     \* the module-level Map: cache key -> [data, timestamp]
    inv,       \* slot -> the invocation suspended there (pc = "idle": none)
    resp,      \* the response returned by the last step (status 0: none)
    finished,  \* the record of the invocation that returned resp
    served,    \* log: the last success response (key, time, payload, X-Cache)
    fetched,   \* log: the last X-Cache: MISS response (key, time, payload)
    query,     \* browser: one useQuery fetch of a data hook
    page,      \* browser: the Index page, its form and localStorage
    board      \* browser: the dashboard's query data and the lists it renders

vars == <<now, cache, inv, resp, finished, served, fetched, query, page, board>>

\* The edge function's state, and the browser's.
backend == <<now, cache, inv, resp, finished, served, fetched>>

frontend == <<query, page, board>>

\* A value that may be null: null itself, or a string, held as the
\* sequence of its characters.
Null == [has |-> FALSE, text |-> <<>>]

Some(text) == [has |-> TRUE, text |-> text]

\* No query is fetching.
NoQuery ==
    [pc |-> "idle", hook |-> None, failureCount |-> 0, wakeAt |-> 0,
     \* log
     invocations |-> 0,    \* supabase.functions.invoke calls of this fetch
     upstreamCalls |-> 0,  \* fetch() calls the proxy made for them
     only429 |-> TRUE]     \* every upstream call so far was answered 429

\* The page before it is mounted, nothing stored.
NoPage == [mounted |-> FALSE, apiKey |-> Null, storage |-> Null, input |-> <<>>]

\* The data of a query that has none yet (undefined), a response without
\* the list, and a response with it.
NoData == [has |-> FALSE, list |-> FALSE, items |-> <<>>]

NoList == [has |-> TRUE, list |-> FALSE, items |-> <<>>]

Data(items) == [has |-> TRUE, list |-> TRUE, items |-> items]

\* The dashboard before any query has data.
NoBoard == [liveMatchesData |-> NoData, fixturesData |-> NoData, resultsData |-> NoData]

NoServe == [key |-> <<>>, at |-> -1, data |-> None, xcache |-> None]

\* An invocation: its program counter, the request, its locals, and a log
\* of what it did.
Idle ==
    [pc |-> "idle", env |-> Undefined, apiKey |-> Undefined, body |-> Malformed,
     endpoint |-> Undefined, params |-> <<>>, attempt |-> 0, wakeAt |-> 0,
     status |-> 0,
     \* log
     calls |-> 0,          \* fetch() calls started
     delays |-> <<>>,      \* the arguments of sleep(), in order
     nFailed |-> 0,        \* attempts that ended in a 429 or threw
     failures |-> None,    \* their kinds: "429", "error" or "mixed"
     final |-> -1,         \* what the last attempt ended in
     payload |-> None,     \* what response.json() yielded
     urls |-> {},          \* the URLs fetched
     checked |-> FALSE,    \* cache.get() was called
     found |-> None,       \* at the hit or the store: what the cache held
     after |-> None,       \* the last response for the key, if within TTL
     prior |-> NoServe,    \* at the hit or the store: the last MISS response
     thrown |-> <<>>,      \* the message of the exception the handler caught
     wrote |-> FALSE,      \* the cache was changed
     evicted |-> 0]        \* entries the last step removed from the cache

Init ==
    /\ now = 0
    /\ cache = << >>
    /\ inv = [r \in Slots |-> Idle]
    /\ resp = NoResponse
    /\ finished = Idle
    /\ served = NoServe
    /\ fetched = NoServe
    /\ query = NoQuery
    /\ page = NoPage
    /\ board = NoBoard

\* The step returns response `out` for the invocation in slot r, whose final
\* record is `rec`; the slot is free again.
Return(r, rec, out) ==
    /\ resp' = out
    /\ finished' = [rec EXCEPT !.pc = "done", !.wrote = (cache' # cache),
                               !.evicted = Cardinality(DOMAIN cache \ DOMAIN cache')]
    /\ inv' = [inv EXCEPT ![r] = Idle]
    /\ LET entry == [key |-> CacheKey(rec.endpoint, rec.params), at |-> now,
                     data |-> out.data, xcache |-> out.xcache]
       IN  /\ served' = IF out.xcache # None THEN entry ELSE served
           /\ fetched' = IF out.xcache = "MISS" THEN entry ELSE fetched
    /\ UNCHANGED frontend

\* Mutant: the exception leaves the handler, no response is built.
ThrowUncaught(r, rec, message) ==
    Return(r, [rec EXCEPT !.thrown = message], NoResponse)

\* An exception with this message is thrown inside the try block: the catch
\* answers 500 with error.message.
Throw(r, rec, message) ==
    Return(r, [rec EXCEPT !.thrown = message], ProxyErrorResponse(message))

\* The step suspends the invocation in slot r at its next await.
Suspend(r, rec) ==
    /\ resp' = NoResponse
    /\ finished' = Idle
    /\ inv' = [inv EXCEPT ![r] = rec]
    /\ UNCHANGED <<served, fetched>>
    /\ UNCHANGED frontend

\* fetch(url, ...) is started: one more upstream call.
StartFetch(rec) ==
    [rec EXCEPT !.pc = "fetching",
                !.calls = @ + 1,
                !.urls = @ \cup {FullUrl(rec.endpoint, rec.params, rec.apiKey)}]

\* Log: what the cache holds for key k at this instant.
Found(k) ==
    IF k \notin DOMAIN cache THEN "absent"
    ELSE IF now - cache[k].timestamp >= CACHE_TTL THEN "stale" ELSE "fresh"

\* Log: the kind of the last response for key k, if less than CACHE_TTL ago.
After(k) ==
    IF fetched.key = k /\ now - fetched.at < CACHE_TTL THEN "MISS"
    ELSE IF served.key = k /\ now - served.at < CACHE_TTL THEN "HIT"
    ELSE None

\* Log: the kinds of the failed attempts so far.
Failed(failures, outcome) ==
    LET kind == IF outcome = NetworkError THEN "error" ELSE "429"
    IN  IF failures \in {None, kind} THEN kind ELSE "mixed"

\* Log: an attempt of rec ended in `outcome`; a 429 and a throw are failures.
Logged(rec, outcome) ==
    IF outcome \in {429, NetworkError}
    THEN [rec EXCEPT !.nFailed = @ + 1, !.failures = Failed(@, outcome)]
    ELSE rec

\* Mutant: the backoff blocks the event loop, no request is taken while an
\* invocation sleeps.
FreeSlotWhenNoneSleeps(r) ==
    /\ inv[r].pc = "idle"
    /\ \A q \in Slots : q < r => inv[q].pc # "idle"
    /\ \A q \in Slots : inv[q].pc # "sleeping"

\* Slots are taken lowest first.
FreeSlot(r) == inv[r].pc = "idle" /\ \A q \in Slots : q < r => inv[q].pc # "idle"

(* ------------------------------------------------------------------ *)
(* Steps of the handler                                               *)
(* ------------------------------------------------------------------ *)
\* Mutant: the credential is read and checked before the method.
PreflightAfterKeyCheck(r, env) ==
    /\ FreeSlot(r)
    /\ resp' = IF env = Undefined THEN ProxyErrorResponse(ConfigErrorMessage)
                                  ELSE PreflightResponse
    /\ finished' = [Idle EXCEPT !.pc = "preflight", !.env = env, !.apiKey = env]
    /\ UNCHANGED <<now, cache, inv, served, fetched>>
    /\ UNCHANGED frontend

\* An OPTIONS request, with `env` the value of SPORTRADAR_API_KEY in the
\* environment: answered at once, nothing is read.
Preflight(r, env) ==
    /\ FreeSlot(r)
    /\ resp' = PreflightResponse
    /\ finished' = [Idle EXCEPT !.pc = "preflight", !.env = env]
    /\ UNCHANGED <<now, cache, inv, served, fetched>>
    /\ UNCHANGED frontend

\* Any other request: read the credential, then await req.json().
Invoke(r, apiKey, body) ==
    /\ FreeSlot(r)
    /\ UNCHANGED <<now, cache>>
    /\ LET rec == [Idle EXCEPT !.env = apiKey, !.apiKey = apiKey, !.body = body]
       IN  IF ApiKeyMissing(apiKey)
           THEN Throw(r, rec, ConfigErrorMessage)
           ELSE Suspend(r, [rec EXCEPT !.pc = "parsing"])

\* Mutant: a hit refreshes the time stamp of the entry it served.
ParseBodyTouching(r) ==
    /\ inv[r].pc = "parsing"
    /\ UNCHANGED now
    /\ cache' = LET k == CacheKey(inv[r].body.endpoint, inv[r].body.params)
                IN  IF /\ ~inv[r].body.malformed
                       /\ ~EndpointMissing(inv[r].body.endpoint)
                       /\ k \in DOMAIN cache
                       /\ IsFresh(cache[k], now)
                    THEN [cache EXCEPT ![k].timestamp = now]
                    ELSE cache
    /\ LET body == inv[r].body
       IN  IF body.malformed
           THEN Throw(r, inv[r], BodyErrorMessage)
           ELSE IF EndpointMissing(body.endpoint)
           THEN Return(r, inv[r], MissingEndpointResponse)
           ELSE LET k == CacheKey(body.endpoint, body.params)
                    rec == [inv[r] EXCEPT !.endpoint = body.endpoint,
                                          !.params = body.params,
                                          !.checked = TRUE,
                                          !.after = After(k)]
                IN  IF k \in DOMAIN cache /\ IsFresh(cache[k], now)
                    THEN Return(r, [rec EXCEPT !.prior = fetched, !.found = Found(k)],
                                HitResponse(cache[k].data))
                    ELSE Suspend(r, StartFetch(rec))

\* req.json() settles: endpoint check, cache lookup, and on a miss the first
\* upstream attempt is started.
ParseBody(r) ==
    /\ inv[r].pc = "parsing"
    /\ UNCHANGED <<now, cache>>
    /\ LET body == inv[r].body
       IN  IF body.malformed
           THEN Throw(r, inv[r], BodyErrorMessage)
           ELSE IF EndpointMissing(body.endpoint)
           THEN Return(r, inv[r], MissingEndpointResponse)
           ELSE LET k == CacheKey(body.endpoint, body.params)
                    rec == [inv[r] EXCEPT !.endpoint = body.endpoint,
                                          !.params = body.params,
                                          !.checked = TRUE,
                                          !.after = After(k)]
                IN  IF k \in DOMAIN cache /\ IsFresh(cache[k], now)
                    THEN Return(r, [rec EXCEPT !.prior = fetched, !.found = Found(k)],
                                HitResponse(cache[k].data))
                    ELSE Suspend(r, StartFetch(rec))

\* The pending fetch settles with a status or throws (fetchWithRetry), and
\* the handler goes on to read the body of the response it got back.
FetchSettles(r, outcome, namesUrl) ==
    /\ inv[r].pc = "fetching"
    /\ UNCHANGED <<now, cache>>
    /\ LET n == inv[r].attempt
           rec == Logged(inv[r], outcome)
           sleep == [rec EXCEPT !.pc = "sleeping",
                                !.delays = Append(@, RetryDelay(n)),
                                !.wakeAt = now + RetryDelay(n)]
       IN  IF outcome = NetworkError
           THEN IF ShouldRetryError(n)
                THEN Suspend(r, sleep)
                ELSE Throw(r, [rec EXCEPT !.final = outcome],
                           FetchErrorMessage(
                               FullUrl(rec.endpoint, rec.params, rec.apiKey),
                               namesUrl))
           ELSE IF ShouldRetryStatus(outcome, n)
                THEN Suspend(r, sleep)
                ELSE Suspend(r, [rec EXCEPT !.final = outcome,
                                            !.status = outcome,
                                            !.pc = IF IsOk(outcome) THEN "json"
                                                                    ELSE "text"])

\* The backoff timer fires: fetchWithRetry(url, attempt + 1).
SleepDone(r) ==
    /\ inv[r].pc = "sleeping"
    /\ UNCHANGED <<now, cache>>
    /\ now >= inv[r].wakeAt
    /\ Suspend(r, StartFetch([inv[r] EXCEPT !.attempt = @ + 1, !.wakeAt = 0]))

\* Mutant: the upstream error text is stored like a payload.
ReadTextCaching(r) ==
    /\ inv[r].pc = "text"
    /\ UNCHANGED now
    /\ cache' = CacheSet(cache, CacheKey(inv[r].endpoint, inv[r].params),
                         UpstreamErrorText, now)
    /\ Return(r, inv[r],
              UpstreamErrorResponse(inv[r].status, UpstreamErrorText, inv[r].endpoint))

\* response.text() settles: the upstream error is relayed.
ReadText(r) ==
    /\ inv[r].pc = "text"
    /\ UNCHANGED <<now, cache>>
    /\ Return(r, inv[r],
              UpstreamErrorResponse(inv[r].status, UpstreamErrorText, inv[r].endpoint))

\* response.json() settles: store, clean up, answer; or it throws.
ReadJson(r, parsed) ==
    /\ inv[r].pc = "json"
    /\ LET k == CacheKey(inv[r].endpoint, inv[r].params)
           rec == [inv[r] EXCEPT !.payload = parsed, !.prior = fetched,
                                 !.found = Found(k)]
       IN  IF parsed = Unparsable
           THEN /\ UNCHANGED cache
                /\ Throw(r, rec, JsonErrorMessage)
           ELSE /\ cache' = CacheCleanup(
                               CacheSet(cache, CacheKey(rec.endpoint, rec.params),
                                        parsed, now),
                               now)
                /\ Return(r, rec, MissResponse(parsed))
    /\ UNCHANGED now

\* Time passes.
Tick(t) ==
    /\ t > now
    /\ now' = t
    /\ resp' = NoResponse
    /\ finished' = Idle
    /\ UNCHANGED <<cache, inv, served, fetched>>
    /\ UNCHANGED frontend

Next ==
    \/ \E r \in Slots, k \in EnvValues : Preflight(r, k)
    \/ \E r \in Slots, k \in EnvValues, b \in Bodies : Invoke(r, k, b)
    \/ \E r \in Slots : ParseBody(r)
    \/ \E r \in Slots, o \in FetchOutcomes, u \in BOOLEAN : FetchSettles(r, o, u)
    \/ \E r \in Slots : SleepDone(r)
    \/ \E r \in Slots : ReadText(r)
    \/ \E r \in Slots, d \in JsonOutcomes : ReadJson(r, d)
    \/ \E t \in TimePoints : Tick(t)

Spec == Init /\ [][Next]_vars

(* ------------------------------------------------------------------ *)
(* One request at a time, against a cache that may already be full    *)
(* ------------------------------------------------------------------ *)
\* The same params object with its members inserted in the other order.
ParamsBA == << <<"b", "2">>, <<"a", "1">> >>

\* Two params objects have equal content: the same members, in any order.
SameContent(p, q) ==
    /\ Len(p) = Len(q)
    /\ {p[i] : i \in 1..Len(p)} = {q[i] : i \in 1..Len(q)}

BodiesSeq ==
    [malformed : {FALSE}, endpoint : {"/matches/live"}, params : {ParamsAB, ParamsBA}]

\* Entries left in the cache by earlier requests for other endpoints.
FillerCounts == {0, CACHE_SOFT_CAPACITY - 1, CACHE_SOFT_CAPACITY}

FillerEndpoint(i) == "/players/" \o ToString(i)

FillerKey(i) == CacheKey(FillerEndpoint(i), <<>>)

\* The earlier requests were answered at time 0 (odd i) or 1000 (even i).
FillerStamp(i) == IF i % 2 = 1 THEN 0 ELSE 1000

Fillers(n) ==
    [k \in {FillerKey(i) : i \in 1..n} |->
        LET i == CHOOSE j \in 1..n : FillerKey(j) = k
        IN  [data |-> "v0", timestamp |-> FillerStamp(i)]]

TimePointsSeq == TimePoints \cup {2 * CACHE_TTL, 2 * CACHE_TTL + 1001}

InitSeq ==
    /\ now = 1000
    /\ cache \in {Fillers(n) : n \in FillerCounts}
    /\ inv = [r \in Slots |-> Idle]
    /\ resp = NoResponse
    /\ finished = Idle
    /\ served = NoServe
    /\ fetched = NoServe
    /\ query = NoQuery
    /\ page = NoPage
    /\ board = NoBoard

NextSeq ==
    \/ \E b \in BodiesSeq : Invoke(1, "sr-secret", b)
    \/ ParseBody(1)
    \/ \E o \in FetchOutcomes, u \in BOOLEAN : FetchSettles(1, o, u)
    \/ SleepDone(1)
    \/ ReadText(1)
    \/ \E d \in JsonOutcomes : ReadJson(1, d)
    \/ \E t \in TimePointsSeq : Tick(t)

SpecSeq == InitSeq /\ [][NextSeq]_vars

(* ------------------------------------------------------------------ *)
(* Every await settles and every timer fires                          *)
(* ------------------------------------------------------------------ *)
\* Requests arrive until this instant.
LiveHorizon == 1000

InvokeLive(r, apiKey, body) == now <= LiveHorizon /\ Invoke(r, apiKey, body)

\* Time passes until the next pending setTimeout of sleep() is due.
TimerDue ==
    \E r \in Slots :
       /\ inv[r].pc = "sleeping"
       /\ inv[r].wakeAt > now
       /\ \A q \in Slots :
             (inv[q].pc = "sleeping" /\ inv[q].wakeAt > now)
                => inv[r].wakeAt <= inv[q].wakeAt
       /\ Tick(inv[r].wakeAt)

NextLive ==
    \/ \E r \in Slots, k \in EnvValues, b \in Bodies : InvokeLive(r, k, b)
    \/ \E r \in Slots : ParseBody(r)
    \/ \E r \in Slots, o \in FetchOutcomes, u \in BOOLEAN : FetchSettles(r, o, u)
    \/ \E r \in Slots : SleepDone(r)
    \/ \E r \in Slots : ReadText(r)
    \/ \E r \in Slots, d \in JsonOutcomes : ReadJson(r, d)
    \/ TimerDue

\* Each promise the handler awaits settles, and each timer fires.
FairLive ==
    /\ \A r \in Slots :
          /\ WF_vars(ParseBody(r))
          /\ WF_vars(\E o \in FetchOutcomes, u \in BOOLEAN : FetchSettles(r, o, u))
          /\ WF_vars(SleepDone(r))
          /\ WF_vars(ReadText(r))
          /\ WF_vars(\E d \in JsonOutcomes : ReadJson(r, d))
    /\ WF_vars(TimerDue)

SpecLive == Init /\ [][NextLive]_vars /\ FairLive

(* ------------------------------------------------------------------ *)
(* Requests whose endpoint or params carry URL syntax                 *)
(* ------------------------------------------------------------------ *)
\* A params object with a member named api_key.
ParamsWithKey == << <<"api_key", "evil">>, <<"a", "1">> >>

BodiesUrl ==
    { [malformed |-> FALSE, endpoint |-> "/matches/live", params |-> ParamsWithKey],
      [malformed |-> FALSE, endpoint |-> "/matches/live#", params |-> ParamsAB],
      [malformed |-> FALSE, endpoint |-> "/matches/live?api_key=evil#", params |-> <<>>] }

NextUrl ==
    \/ \E b \in BodiesUrl : InvokeLive(1, "sr-secret", b)
    \/ ParseBody(1)
    \/ \E o \in FetchOutcomes, u \in BOOLEAN : FetchSettles(1, o, u)
    \/ SleepDone(1)
    \/ ReadText(1)
    \/ \E d \in JsonOutcomes : ReadJson(1, d)
    \/ \E t \in TimePoints : Tick(t)

SpecUrl == Init /\ [][NextUrl]_vars

(* ------------------------------------------------------------------ *)
(* One fetch of a frontend data hook, through the proxy               *)
(* ------------------------------------------------------------------ *)
Hooks ==
    {"useCompetitions", "useLiveMatches", "useMatchSummary",
     "useSeasonSchedule", "useSeasonStandings", "useScheduledMatches"}

\* Mutant: every hook retries once more.
RetryOneMore(hook) == IF hook = "useLiveMatches" THEN 4 ELSE 3

\* The retry option of the hook's useQuery.
Retry(hook) == IF hook = "useLiveMatches" THEN 3 ELSE 2

\* The endpoint the hook's queryFn requests.
HookEndpoint(hook) ==
    CASE hook = "useCompetitions" -> "/soccer/trial/v4/en/competitions.json"
      [] hook = "useLiveMatches" -> "/soccer/trial/v4/en/sport_events/live/summaries.json"
      [] hook = "useMatchSummary" -> "/soccer/trial/v4/en/sport_events/1/summary.json"
      [] hook = "useSeasonSchedule" -> "/soccer/trial/v4/en/seasons/1/schedule.json"
      [] hook = "useSeasonStandings" -> "/soccer/trial/v4/en/seasons/1/standings.json"
      [] hook = "useScheduledMatches" -> "/soccer/trial/v4/en/schedules/2024-01-01/summaries.json"

\* body: { endpoint, params }, the queryFn passing no params.
HookBody(hook) == [malformed |-> FALSE, endpoint |-> HookEndpoint(hook), params |-> <<>>]

\* useQuery's delay before the retry that follows failure number
\* failureCount + 1 (no retryDelay option is given): 1000, 2000, 4000, ...
QueryRetryDelay(failureCount) ==
    IF 1000 * 2^failureCount < 30000 THEN 1000 * 2^failureCount ELSE 30000

\* The hook's query starts fetching: its queryFn is called.
QueryStart(hook) ==
    /\ query.pc = "idle"
    /\ query' = [NoQuery EXCEPT !.pc = "fetching", !.hook = hook]
    /\ UNCHANGED <<backend, page, board>>

\* supabase.functions.invoke('sportradar-proxy', ...): the request of the
\* queryFn reaches the proxy, where the credential is configured.
QueryInvoke ==
    /\ query.pc = "fetching"
    /\ ~(finished.pc = "done")
    /\ Invoke(1, "sr-secret", HookBody(query.hook))

\* The proxy has answered: request() returns the data of a 2xx response
\* and throws an APIError for anything else; useQuery retries a failed
\* queryFn while failureCount < retry.
QueryReceive ==
    /\ query.pc = "fetching"
    /\ finished.pc = "done"
    /\ LET q == [query EXCEPT !.invocations = @ + 1,
                              !.upstreamCalls = @ + finished.calls,
                              !.only429 = @ /\ resp.status = 429
                                            /\ finished.failures = "429"]
       IN  query' = IF IsOk(resp.status)
                    THEN [q EXCEPT !.pc = "success"]
                    ELSE IF q.failureCount < Retry(q.hook)
                    THEN [q EXCEPT !.pc = "waiting",
                                   !.wakeAt = now + QueryRetryDelay(q.failureCount),
                                   !.failureCount = @ + 1]
                    ELSE [q EXCEPT !.pc = "error"]
    /\ UNCHANGED <<backend, page, board>>

\* The retry delay is over: the queryFn is called again.
QueryRetry ==
    /\ query.pc = "waiting"
    /\ now >= query.wakeAt
    /\ query' = [query EXCEPT !.pc = "fetching", !.wakeAt = 0]
    /\ UNCHANGED <<backend, page, board>>

\* Time passes until the retry is due.
QueryTimer ==
    /\ query.pc = "waiting"
    /\ query.wakeAt > now
    /\ Tick(query.wakeAt)

NextQuery ==
    \/ \E hook \in Hooks : QueryStart(hook)
    \/ QueryInvoke
    \/ ParseBody(1)
    \/ \E o \in FetchOutcomes, u \in BOOLEAN : FetchSettles(1, o, u)
    \/ SleepDone(1)
    \/ ReadText(1)
    \/ \E d \in JsonOutcomes : ReadJson(1, d)
    \/ TimerDue
    \/ QueryReceive
    \/ QueryRetry
    \/ QueryTimer

SpecQuery == Init /\ [][NextQuery]_vars

(* ------------------------------------------------------------------ *)
(* The Index page: API key form, dashboard, localStorage              *)
(* ------------------------------------------------------------------ *)
MaxKeyLen == 4

Chars == {" ", "a", "b"}

\* What can be typed into the form.
Texts == UNION {[1..n -> Chars] : n \in 0..MaxKeyLen}

RECURSIVE TrimStart(_)
TrimStart(text) ==
    IF text # <<>> /\ Head(text) = " " THEN TrimStart(Tail(text)) ELSE text

RECURSIVE TrimEnd(_)
TrimEnd(text) ==
    IF text # <<>> /\ text[Len(text)] = " "
    THEN TrimEnd(SubSeq(text, 1, Len(text) - 1))
    ELSE text

\* Mutant: only leading white space is removed.
TrimStartOnly(text) == TrimStart(text)

\* String.prototype.trim
Trim(text) == TrimEnd(TrimStart(text))

\* A value in a condition: null and the empty string are falsy.
Truthy(value) == value.has /\ value.text # <<>>

\* What earlier visits may have left in localStorage: nothing, or a key
\* stored by handleSubmit.
StoredKeys == {Null} \cup {Some(Trim(t)) : t \in {u \in Texts : Trim(u) # <<>>}}

\* useEffect(..., []): the saved key, if any, becomes the state.
IndexMount ==
    /\ ~page.mounted
    /\ page' = [page EXCEPT !.mounted = TRUE,
                            !.apiKey = IF Truthy(page.storage) THEN page.storage ELSE @]
    /\ UNCHANGED <<backend, query, board>>

\* The user edits the field of the setup form, which is shown while
\* !apiKey.
SetupType(text) ==
    /\ page.mounted
    /\ ~Truthy(page.apiKey)
    /\ page' = [page EXCEPT !.input = text]
    /\ UNCHANGED <<backend, query, board>>

\* ApiSetup.handleSubmit, then Index.handleApiKeySubmit; the form is
\* unmounted once the dashboard is shown.
SetupSubmit ==
    /\ page.mounted
    /\ ~Truthy(page.apiKey)
    /\ page' = IF Trim(page.input) # <<>>
               THEN [page EXCEPT !.storage = Some(Trim(page.input)),
                                 !.apiKey = Some(Trim(page.input)),
                                 !.input = <<>>]
               ELSE page
    /\ UNCHANGED <<backend, query, board>>

\* SoccerDashboard.handleLogout, then Index.handleLogout; the dashboard is
\* shown while apiKey is set.
DashboardLogout ==
    /\ page.mounted
    /\ Truthy(page.apiKey)
    /\ page' = [page EXCEPT !.storage = Null, !.apiKey = Null]
    /\ UNCHANGED <<backend, query, board>>

InitIndex ==
    /\ now = 0
    /\ cache = << >>
    /\ inv = [r \in Slots |-> Idle]
    /\ resp = NoResponse
    /\ finished = Idle
    /\ served = NoServe
    /\ fetched = NoServe
    /\ query = NoQuery
    /\ page \in {[NoPage EXCEPT !.storage = k] : k \in StoredKeys}
    /\ board = NoBoard

NextIndex ==
    \/ IndexMount
    \/ \E text \in Texts : SetupType(text)
    \/ SetupSubmit
    \/ DashboardLogout

SpecIndex == InitIndex /\ [][NextIndex]_vars

(* ------------------------------------------------------------------ *)
(* The dashboard: query data and the lists rendered from it           *)
(* ------------------------------------------------------------------ *)
MaxSchedules == 2

\* sport_event_status: absent, or with its match_status.
NoStatus == [has |-> FALSE, match_status |-> ""]

Status(s) == [has |-> TRUE, match_status |-> s]

LiveStates == {"live", "1st_half", "2nd_half", "overtime", "penalties"}

FinishedStates == {"closed", "ended", "aet", "ft"}

\* The values of match_status tried: the listed ones, the empty string
\* and two the lists do not name.
MatchStatuses == LiveStates \cup FinishedStates \cup {"", "not_started", "postponed"}

Competitors ==
    { << [qualifier |-> "home", name |-> "Arsenal"], [qualifier |-> "away", name |-> "Chelsea"] >>,
      << [qualifier |-> "home", name |-> "Arsenal"] >> }

SportEvents == [id : {"sr:sport_event:1"}, competitors : Competitors]

\* The entries of a live summaries response, and of a daily schedules
\* response.
LiveEntries ==
    [sport_event : SportEvents,
     sport_event_status : {NoStatus} \cup {Status(s) : s \in MatchStatuses}]

ScheduleEntries ==
    {e \in [sport_event : SportEvents, sport_event_status : {NoStatus, Status("closed")}] :
        Len(e.sport_event.competitors) = 2 \/ e.sport_event_status.has}

LiveResponses == {NoList} \cup {Data(l) : l \in UNION {[1..n -> LiveEntries] : n \in 0..1}}

ScheduleResponses ==
    {NoList} \cup {Data(l) : l \in UNION {[1..n -> ScheduleEntries] : n \in 0..MaxSchedules}}

\* mapStatus
MapStatus(status) ==
    IF status = "" THEN "scheduled"
    ELSE IF status \in LiveStates THEN "live"
    ELSE IF status \in FinishedStates THEN "finished"
    ELSE "scheduled"

\* competitors.find(c => c.qualifier === q)?.name || 'TBD'
TeamName(competitors, q) ==
    IF \E i \in 1..Len(competitors) : competitors[i].qualifier = q
    THEN competitors[CHOOSE i \in 1..Len(competitors) :
                        /\ competitors[i].qualifier = q
                        /\ \A j \in 1..(i - 1) : competitors[j].qualifier # q].name
    ELSE "TBD"

\* transformMatchData: the id, the teams and the status of the card.
transformMatchData(match) ==
    [id |-> match.sport_event.id,
     homeTeam |-> TeamName(match.sport_event.competitors, "home"),
     awayTeam |-> TeamName(match.sport_event.competitors, "away"),
     status |-> MapStatus(IF match.sport_event_status.has
                             /\ match.sport_event_status.match_status # ""
                          THEN match.sport_event_status.match_status
                          ELSE "scheduled")]

\* Mutant: the schedule is passed on with the status the response gave it.
ScheduleAsMatchWithStatus(schedule) == schedule

\* { sport_event: schedule.sport_event, sport_event_status: undefined }
ScheduleAsMatch(schedule) ==
    [sport_event |-> schedule.sport_event, sport_event_status |-> NoStatus]

\* list.filter(match => match.status === status)
RECURSIVE FilterStatus(_, _)
FilterStatus(list, status) ==
    IF list = <<>> THEN <<>>
    ELSE (IF Head(list).status = status THEN <<Head(list)>> ELSE <<>>)
            \o FilterStatus(Tail(list), status)

ScheduleCard(schedule) == transformMatchData(ScheduleAsMatch(schedule))

\* data?.schedules?.map(...), [] when there is no data or no list.
ScheduleCards(data) == [i \in 1..Len(data.items) |-> ScheduleCard(data.items[i])]

\* The lists the dashboard renders.
liveMatches ==
    [i \in 1..Len(board.liveMatchesData.items) |->
        transformMatchData(board.liveMatchesData.items[i])]

fixtures == FilterStatus(ScheduleCards(board.fixturesData), "scheduled")

results == FilterStatus(ScheduleCards(board.resultsData), "finished")

\* A query gets its data.
LiveMatchesLoaded(data) ==
    /\ board' = [board EXCEPT !.liveMatchesData = data]
    /\ UNCHANGED <<backend, query, page>>

FixturesLoaded(data) ==
    /\ board' = [board EXCEPT !.fixturesData = data]
    /\ UNCHANGED <<backend, query, page>>

ResultsLoaded(data) ==
    /\ board' = [board EXCEPT !.resultsData = data]
    /\ UNCHANGED <<backend, query, page>>

NextBoard ==
    \/ \E data \in LiveResponses : LiveMatchesLoaded(data)
    \/ \E data \in ScheduleResponses : FixturesLoaded(data)
    \/ \E data \in ScheduleResponses : ResultsLoaded(data)

SpecBoard == Init /\ [][NextBoard]_vars

(* ------------------------------------------------------------------ *)
(* Properties                                                         *)
(* ------------------------------------------------------------------ *)
KeyOf(rec) == CacheKey(rec.endpoint, rec.params)

\* The last step returned the response of a non-preflight request.
Done == finished.pc = "done"

NoneInFlight == \A r \in Slots : inv[r].pc = "idle"

\* C1: two identical requests in sequence, less than CACHE_TTL apart, with
\* an upstream that answers 2xx: the first is answered X-Cache: MISS after
\* exactly one upstream call, and the second, whose cache check comes less
\* than CACHE_TTL after that MISS with nothing else in flight, is answered
\* X-Cache: HIT with the same payload and no upstream call.
C1_SecondRequestHits ==
    /\ (Done /\ finished.final = 200 /\ finished.nFailed = 0
             /\ finished.payload \in Payloads)
          => /\ resp.status = 200
             /\ resp.xcache = "MISS"
             /\ resp.data = finished.payload
             /\ finished.calls = 1
    /\ \A r \in Slots :
          (inv[r].after = "MISS" /\ \A q \in Slots \ {r} : inv[q].pc = "idle")
             => inv[r].calls = 0
    /\ (Done /\ finished.after = "MISS" /\ NoneInFlight)
          => /\ resp.status = 200
             /\ resp.xcache = "HIT"
             /\ resp.data = finished.prior.data
             /\ finished.prior.key = KeyOf(finished)
             /\ finished.calls = 0

C1_Witness ==
    /\ Done /\ NoneInFlight
    /\ resp.xcache = "HIT"
    /\ finished.after = "MISS"
    /\ finished.prior.at < now
    /\ now - finished.prior.at < CACHE_TTL
    /\ resp.data = finished.prior.data

\* C2 (state part): every payload served is, at the moment it is served,
\* the cache entry of its key and younger than CACHE_TTL; a HIT is given
\* only on an entry found fresh, without any upstream call.
C2_ServedIsFresh ==
    (Done /\ resp.xcache # None)
       => /\ KeyOf(finished) \in DOMAIN cache
          /\ cache[KeyOf(finished)].data = resp.data
          /\ now - cache[KeyOf(finished)].timestamp < CACHE_TTL
          /\ resp.xcache = "HIT" => (finished.found = "fresh" /\ finished.calls = 0)

\* C2 (step part): at the cache check, an entry of age < CACHE_TTL is
\* answered from the cache; an entry of age >= CACHE_TTL, or no entry,
\* makes the request start an upstream call.
C2_CheckStep ==
    \A r \in Slots :
       (/\ inv[r].pc = "parsing"
        /\ inv'[r].pc # "parsing"
        /\ ~inv[r].body.malformed
        /\ inv[r].body.endpoint \notin {Undefined, ""})
       => LET k == CacheKey(inv[r].body.endpoint, inv[r].body.params)
          IN  IF k \in DOMAIN cache /\ now - cache[k].timestamp < CACHE_TTL
              THEN /\ resp'.xcache = "HIT"
                   /\ resp'.data = cache[k].data
                   /\ finished'.calls = 0
              ELSE /\ resp'.status = 0
                   /\ inv'[r].pc = "fetching"
                   /\ inv'[r].calls = 1

\* C2: a request is answered from the cache only on an entry of age <
\* CACHE_TTL at the check; otherwise it goes upstream; no payload of age
\* >= CACHE_TTL is served.
C2_FreshnessDecidesHit == []C2_ServedIsFresh /\ [][C2_CheckStep]_vars

\* A request finds an entry older than two minutes and goes upstream.
C2_Witness ==
    \E r \in Slots :
       /\ inv[r].pc = "fetching"
       /\ inv[r].calls = 1
       /\ KeyOf(inv[r]) \in DOMAIN cache
       /\ now - cache[KeyOf(inv[r])].timestamp > 2 * CACHE_TTL

\* C3 as claimed: a request handled less than CACHE_TTL after any success
\* response for its key (MISS or HIT) makes no upstream call and gets the
\* payload of that response.
C3_AsClaimed ==
    /\ \A r \in Slots : inv[r].after # None => inv[r].calls = 0
    /\ (Done /\ finished.after # None)
          => (resp.xcache = "HIT" /\ finished.calls = 0)

\* C3 as amended: a request whose cache check comes less than CACHE_TTL
\* after an X-Cache: MISS response for its key makes no upstream call and
\* is answered X-Cache: HIT with the payload of the latest such response,
\* whatever else is in flight.
C3_WithinTTLOfMiss ==
    /\ \A r \in Slots : inv[r].after # "MISS"
    /\ (Done /\ finished.after = "MISS")
          => /\ resp.xcache = "HIT"
             /\ finished.calls = 0
             /\ finished.prior.key = KeyOf(finished)
             /\ now - finished.prior.at < CACHE_TTL
             /\ resp.data = finished.prior.data

\* A HIT less than CACHE_TTL after a MISS while another request for the
\* same key is in flight.
C3_Witness ==
    /\ Done
    /\ resp.xcache = "HIT"
    /\ finished.after = "MISS"
    /\ \E r \in Slots : inv[r].pc = "fetching" /\ KeyOf(inv[r]) = KeyOf(finished)

\* The invocations whose log can be read: those suspended and, after a
\* step that returned a response, the one that returned.
Records == {inv[r] : r \in Slots} \cup {finished}

\* C4: when every attempt of a request is answered 429, fetchWithRetry
\* makes exactly 1 + MAX_RETRIES = 4 attempts, sleeps 1000, 2000 and 4000
\* ms in that order between them, hands the last 429 back, and the request
\* is answered with HTTP status 429.
C4_Always429 ==
    /\ \A rec \in Records :
          (rec.final = 429 /\ rec.failures = "429")
             => /\ rec.calls = 1 + MAX_RETRIES
                /\ rec.nFailed = rec.calls
                /\ rec.delays = <<1000, 2000, 4000>>
                /\ rec.status = 429
    /\ (Done /\ finished.final = 429 /\ finished.failures = "429")
          => /\ resp.status = 429
             /\ resp.error = <<"API Error: ", 429>>

C4_Witness ==
    /\ Done
    /\ finished.final = 429
    /\ finished.failures = "429"
    /\ finished.calls = 4
    /\ resp.status = 429

\* C5: an attempt that is answered a non-2xx status other than 429 is the
\* last one: no attempt and no backoff delay follows it, and the request is
\* answered with that status; when it is the first attempt, exactly one
\* attempt was made and nothing was slept.
C5_OtherStatusIsFinal ==
    /\ \A rec \in Records :
          (rec.final \in UpstreamStatuses /\ rec.final # 429 /\ ~(rec.final \in 200..299))
             => /\ rec.calls = rec.nFailed + 1
                /\ Len(rec.delays) = rec.nFailed
                /\ rec.status = rec.final
                /\ rec.nFailed = 0 => (rec.calls = 1 /\ rec.delays = <<>>)
    /\ (Done /\ finished.final \in UpstreamStatuses /\ finished.final # 429
             /\ ~(finished.final \in 200..299))
          => resp.status = finished.final

C5_Witness ==
    /\ Done
    /\ finished.final = 404
    /\ finished.calls = 1
    /\ finished.delays = <<>>
    /\ resp.status = 404

\* C6: when the upstream answers 429 on attempts 0..k-1 and 2xx with a
\* parsable body on attempt k (k in 0..MAX_RETRIES), the request is
\* answered 200 with that payload after k + 1 attempts and exactly the k
\* backoff delays RETRY_DELAYS[0..k-1].
C6_SuccessAfterRetries ==
    (Done /\ finished.final = 200 /\ finished.failures \in {None, "429"}
          /\ finished.payload \in Payloads)
       => /\ finished.nFailed \in 0..MAX_RETRIES
          /\ finished.calls = finished.nFailed + 1
          /\ finished.delays = SubSeq(<<1000, 2000, 4000>>, 1, finished.nFailed)
          /\ resp.status = 200
          /\ resp.data = finished.payload

\* 429 on attempts 0-2, then 200: the payload after three delays.
C6_Witness ==
    /\ Done
    /\ finished.final = 200
    /\ finished.failures = "429"
    /\ finished.nFailed = 3
    /\ finished.delays = <<1000, 2000, 4000>>
    /\ resp.data = finished.payload
    /\ resp.data \in Payloads

\* C7: a fetch that throws is retried like a 429: whatever the kinds of
\* the failures, the delays slept are the first ones of the schedule and
\* never more than 1 + MAX_RETRIES attempts are made; when the last
\* attempt throws it is the fourth, and the request is answered HTTP 500
\* {error: 'Proxy error', message: the exception's message}.
C7_NetworkErrorRetried ==
    /\ \A rec \in Records :
          /\ rec.calls <= 1 + MAX_RETRIES
          /\ rec.delays = SubSeq(<<1000, 2000, 4000>>, 1, Len(rec.delays))
          /\ rec.pc \in {"fetching", "sleeping"} => Len(rec.delays) = rec.nFailed
    /\ (Done /\ finished.final = NetworkError)
          => /\ finished.calls = 1 + MAX_RETRIES
             /\ finished.nFailed = finished.calls
             /\ finished.delays = <<1000, 2000, 4000>>
             /\ resp.status = 500
             /\ resp.error = <<"Proxy error">>
             /\ resp.message = finished.thrown
             /\ finished.thrown \in
                   {<<"error sending request">>,
                    <<"error sending request for url (">>
                       \o UrlText(FullUrl(finished.endpoint, finished.params,
                                          finished.apiKey))
                       \o <<")">>}

\* All four attempts throw.
C7_Witness ==
    /\ Done
    /\ finished.final = NetworkError
    /\ finished.failures = "error"
    /\ finished.calls = 4
    /\ resp.status = 500

\* C8 (a step that answers with a failure): the cache is left as it was;
\* the only step that changes the cache is one that answers X-Cache: MISS.
C8_FailureStep ==
    /\ (finished'.pc = "done" /\ ~(resp'.status \in 200..299)) => cache' = cache
    /\ cache' # cache => (finished'.pc = "done" /\ resp'.xcache = "MISS")

\* C8 (the cache check of the next identical request, with no entry younger
\* than CACHE_TTL for its key): the first upstream attempt is started, with
\* the whole retry budget ahead of it.
C8_RetryStep ==
    \A r \in Slots :
       (/\ Done /\ ~(resp.status \in 200..299)
        /\ inv[r].pc = "parsing"
        /\ inv'[r].pc # "parsing"
        /\ inv[r].body = finished.body
        /\ ~inv[r].body.malformed
        /\ inv[r].body.endpoint \notin {Undefined, ""}
        /\ LET k == CacheKey(inv[r].body.endpoint, inv[r].body.params)
           IN  ~(k \in DOMAIN cache /\ now - cache[k].timestamp < CACHE_TTL))
       => /\ resp'.status = 0
          /\ inv'[r].pc = "fetching"
          /\ inv'[r].attempt = 0
          /\ inv'[r].calls = 1
          /\ inv'[r].delays = <<>>

\* C8: a request that ends in failure leaves the cache unchanged, and the
\* next identical request, absent a fresh entry, fetches again from the
\* first attempt instead of replaying the failure.
C8_FailuresNotCached == [][C8_FailureStep /\ C8_RetryStep]_vars

\* A request has failed after four attempts, and an identical request is
\* about to check the cache, which holds nothing for its key.
C8_Witness ==
    /\ Done
    /\ resp.status \in {429, 500}
    /\ finished.calls = 4
    /\ KeyOf(finished) \notin DOMAIN cache
    /\ \E r \in Slots : inv[r].pc = "parsing" /\ inv[r].body = finished.body

\* C9 as claimed: a request whose body has no endpoint is answered 400
\* {error: 'Endpoint is required'} without upstream call, cache read or
\* cache write, whatever the configuration.
C9_AsClaimed ==
    (Done /\ ~finished.body.malformed /\ finished.body.endpoint \in {Undefined, ""})
       => /\ resp.status = 400
          /\ resp.error = <<"Endpoint is required">>
          /\ finished.calls = 0
          /\ ~finished.checked
          /\ ~finished.wrote

\* C9 as amended: with SPORTRADAR_API_KEY configured, a request whose body
\* parses and has no endpoint (absent or empty) is answered 400
\* {error: 'Endpoint is required'} without upstream call, cache read or
\* cache write, whatever the cache holds.
C9_MissingEndpoint ==
    (Done /\ finished.apiKey \notin {Undefined, ""}
          /\ ~finished.body.malformed /\ finished.body.endpoint \in {Undefined, ""})
       => /\ resp.status = 400
          /\ resp.error = <<"Endpoint is required">>
          /\ finished.calls = 0
          /\ ~finished.checked
          /\ ~finished.wrote

\* An empty endpoint is rejected while the cache holds an entry.
C9_Witness ==
    /\ Done
    /\ finished.apiKey = "sr-secret"
    /\ ~finished.body.malformed
    /\ finished.body.endpoint = ""
    /\ resp.status = 400
    /\ DOMAIN cache # {}

\* C10: without SPORTRADAR_API_KEY in the environment a request is answered
\* at once with HTTP 500 {error: 'Proxy error', message:
\* 'SPORTRADAR_API_KEY not configured'}: it is never suspended, so it makes
\* no upstream call and no retry, and it neither reads nor changes the
\* cache, even when the cache holds a fresh entry for its key.
C10_MissingCredential ==
    /\ \A r \in Slots : inv[r].pc # "idle" => inv[r].apiKey # Undefined
    /\ (Done /\ finished.apiKey = Undefined)
          => /\ resp.status = 500
             /\ resp.error = <<"Proxy error">>
             /\ resp.message = <<"SPORTRADAR_API_KEY not configured">>
             /\ resp.data = None
             /\ finished.calls = 0
             /\ finished.delays = <<>>
             /\ ~finished.checked
             /\ ~finished.wrote

\* The credential is missing and the cache holds a fresh entry for the key
\* of the request.
C10_Witness ==
    /\ Done
    /\ finished.apiKey = Undefined
    /\ resp.status = 500
    /\ ~finished.body.malformed
    /\ finished.body.endpoint = "/matches/live"
    /\ LET k == CacheKey(finished.body.endpoint, finished.body.params)
       IN  k \in DOMAIN cache /\ now - cache[k].timestamp < CACHE_TTL

\* C11 (the cache check of a request, as claimed): when the cache holds an
\* entry younger than CACHE_TTL stored for the same endpoint and for params
\* of equal content, in whatever order, the request is answered from it as
\* X-Cache: HIT.
C11_CheckStep ==
    (/\ inv[1].pc = "parsing"
     /\ inv'[1].pc # "parsing"
     /\ \E p \in {ParamsAB, ParamsBA} :
           /\ SameContent(p, inv[1].body.params)
           /\ <<inv[1].body.endpoint, "-">> \o JSONStringify(p) \in DOMAIN cache
           /\ now - cache[<<inv[1].body.endpoint, "-">> \o JSONStringify(p)].timestamp
                 < CACHE_TTL)
    => /\ resp'.xcache = "HIT"
       /\ finished'.calls = 0

\* C11 as claimed: the cache key does not depend on the order of the
\* members of params: the second of two requests with params of equal
\* content in different order, less than CACHE_TTL apart, finds the entry
\* of the first and is a HIT.
C11_AsClaimed == [][C11_CheckStep]_vars

\* C12 (one step): an entry that is removed is older than 2 * CACHE_TTL; an
\* entry younger than CACHE_TTL stays; an entry that stays and is not the
\* one being written is unchanged; and the entry written by the request
\* that is answered X-Cache: MISS is in the cache when it is answered.
C12_SweepStep ==
    /\ \A k \in DOMAIN cache :
          /\ k \notin DOMAIN cache' => now - cache[k].timestamp > 2 * 60000
          /\ now - cache[k].timestamp < 60000 => k \in DOMAIN cache'
          /\ (k \in DOMAIN cache' /\ cache'[k] # cache[k])
                => (resp'.xcache = "MISS" /\ k = KeyOf(finished'))
    /\ resp'.xcache = "MISS"
          => /\ KeyOf(finished') \in DOMAIN cache'
             /\ cache'[KeyOf(finished')] = [data |-> resp'.data, timestamp |-> now]

\* C12: the sweep removes only entries older than 2 * CACHE_TTL; an entry
\* younger than CACHE_TTL, and the one just written, is never evicted,
\* however many entries the cache holds.
C12_OnlyOldEvicted == [][C12_SweepStep]_vars

\* A sweep of a cache of more than 100 entries has removed the entry of
\* age 120001 and kept the one of age 119001 and the one just written.
C12_Witness ==
    /\ Done
    /\ resp.xcache = "MISS"
    /\ FillerKey(1) \notin DOMAIN cache
    /\ FillerKey(2) \in DOMAIN cache
    /\ KeyOf(finished) \in DOMAIN cache
    /\ cache[KeyOf(finished)].timestamp = now

\* C13 as claimed: whenever a success response, HIT or MISS, is returned
\* and the cache holds more than 100 entries, no entry is older than
\* 2 * CACHE_TTL.
C13_AsClaimed ==
    (Done /\ resp.xcache \in {"HIT", "MISS"} /\ Cardinality(DOMAIN cache) > 100)
       => \A k \in DOMAIN cache : ~(now - cache[k].timestamp > 2 * 60000)

\* C13 (the step that answers X-Cache: MISS): when the cache, with the new
\* entry stored, holds more than 100 entries, no entry older than
\* 2 * CACHE_TTL is left when the response is returned.
C13_MissStep ==
    (/\ resp'.xcache = "MISS"
     /\ Cardinality(DOMAIN cache \cup {KeyOf(finished')}) > 100)
    => \A k \in DOMAIN cache' : ~(now - cache'[k].timestamp > 2 * 60000)

\* C13 as amended: before an X-Cache: MISS response is returned, if the
\* cache (with the new entry) holds more than 100 entries, every entry
\* older than 2 * CACHE_TTL has been evicted.
C13_MissSweeps == [][C13_MissStep]_vars

\* The 101st entry is stored and all 100 older entries are swept.
C13_Witness ==
    /\ Done
    /\ resp.xcache = "MISS"
    /\ finished.evicted = 100
    /\ DOMAIN cache = {KeyOf(finished)}

C15_ExceptionsCaught ==
    Done =>
       /\ resp.status # 0
       /\ finished.thrown # <<>>
             <=> \/ finished.env = Undefined
                 \/ finished.body.malformed
                 \/ finished.final = NetworkError
                 \/ finished.payload = "Unparsable"
       /\ finished.thrown # <<>>
             => /\ resp.status = 500
                /\ resp.cors
                /\ resp.error = <<"Proxy error">>
                /\ resp.message = finished.thrown
                /\ resp.data = None
       /\ finished.env = Undefined
             => resp.message = <<"SPORTRADAR_API_KEY not configured">>
       /\ (finished.env # Undefined /\ finished.body.malformed)
             => resp.message = <<"Unexpected token in JSON">>
       /\ finished.payload = "Unparsable"
             => resp.message = <<"Unexpected end of JSON input">>

\* response.json() throws after a 200 that followed a 429.
C15_Witness ==
    /\ Done
    /\ finished.payload = "Unparsable"
    /\ finished.nFailed = 1
    /\ resp.status = 500
    /\ resp.message = <<"Unexpected end of JSON input">>

\* The pieces of text in the body of the response.
BodyPieces ==
    {resp.message[i] : i \in 1..Len(resp.message)} \cup {resp.endpoint, resp.data}

\* C16 as claimed: no response body contains the configured credential,
\* whatever the path that produced it.
C16_AsClaimed ==
    (finished.pc \in {"done", "preflight"} /\ finished.env # Undefined)
       => finished.env \notin BodyPieces

\* C17: a success response carries X-Cache: HIT exactly when the request
\* made no upstream call (it was served from an entry found fresh), and
\* X-Cache: MISS exactly when its payload was fetched during the request;
\* an error response carries no X-Cache header.
C17_XCacheTellsSource ==
    Done =>
       /\ resp.status = 200
             => /\ resp.xcache \in {"HIT", "MISS"}
                /\ resp.xcache = "HIT" <=> finished.calls = 0
                /\ resp.xcache = "HIT" => finished.found = "fresh"
                /\ resp.xcache = "MISS"
                      <=> /\ finished.calls >= 1
                          /\ finished.final = 200
                          /\ resp.data = finished.payload
       /\ resp.status # 200 => resp.xcache = None

\* An entry found stale is fetched again: MISS.
C17_Witness ==
    /\ Done
    /\ resp.xcache = "MISS"
    /\ finished.found = "stale"
    /\ finished.calls = 1
    /\ resp.data = finished.payload

\* C18 (the response): an OPTIONS request is answered with an empty body
\* and the CORS headers, whether or not the credential is configured, and
\* the handler has read neither the credential nor the cache.
C18_PreflightResponse ==
    finished.pc = "preflight"
       => /\ resp.status = 200
          /\ resp.cors
          /\ resp.data = None
          /\ resp.error = <<>>
          /\ resp.message = <<>>
          /\ resp.xcache = None
          /\ finished.apiKey = Undefined
          /\ ~finished.checked
          /\ finished.calls = 0

\* C18 (the step): answering an OPTIONS request changes neither the cache
\* nor any invocation: nothing is suspended, parsed or fetched.
C18_PreflightStep ==
    finished'.pc = "preflight" => (cache' = cache /\ inv' = inv /\ now' = now)

\* C18: an OPTIONS request is answered at once with an empty body and the
\* permissive CORS headers, without reading the credential, parsing a
\* body, touching the cache or calling upstream, also when the credential
\* is not configured.
C18_PreflightAnswered == []C18_PreflightResponse /\ [][C18_PreflightStep]_vars

\* A preflight answered without credential while another request waits
\* for the upstream.
C18_Witness ==
    /\ finished.pc = "preflight"
    /\ finished.env = Undefined
    /\ resp.status = 200
    /\ resp.cors
    /\ \E r \in Slots : inv[r].pc = "fetching"

\* C19 (state): every request past its cache check runs its own sequence
\* of upstream calls.
C19_OwnCalls ==
    \A r \in Slots :
       inv[r].pc \in {"fetching", "sleeping", "json", "text"}
          => /\ inv[r].calls >= 1
             /\ inv[r].calls = inv[r].attempt + 1

\* C19 (the cache check): a request that finds no fresh entry for its key
\* while another request for the same key is between its own check and
\* its answer starts its own first upstream call, and the other request
\* goes on as it was.
C19_CheckStep ==
    \A r, q \in Slots :
       (/\ r # q
        /\ inv[r].pc = "parsing"
        /\ inv'[r].pc # "parsing"
        /\ ~inv[r].body.malformed
        /\ inv[r].body.endpoint \notin {Undefined, ""}
        /\ inv[q].pc \in {"fetching", "sleeping", "json"}
        /\ KeyOf(inv[q]) = KeyOf(inv[r].body)
        /\ ~(/\ KeyOf(inv[q]) \in DOMAIN cache
             /\ now - cache[KeyOf(inv[q])].timestamp < 60000))
       => /\ inv'[r].pc = "fetching"
          /\ inv'[r].calls = 1
          /\ inv'[q] = inv[q]

\* C19 (the store): a request whose upstream body parsed is answered
\* X-Cache: MISS with its own payload, and its entry replaces whatever the
\* cache held for the key, an entry written meanwhile by another request
\* included.
C19_StoreStep ==
    \A r \in Slots :
       (inv[r].pc = "json" /\ inv'[r].pc = "idle" /\ finished'.payload \in Payloads)
       => /\ resp'.xcache = "MISS"
          /\ resp'.data = finished'.payload
          /\ cache'[KeyOf(inv[r])] = [data |-> finished'.payload, timestamp |-> now]

\* C19: concurrent requests for a cold key are not coalesced: each makes
\* its own upstream calls and answers MISS, and the later cache.set
\* replaces the entry of the earlier.
C19_NotCoalesced == []C19_OwnCalls /\ [][C19_CheckStep /\ C19_StoreStep]_vars

\* The second of two overlapping requests answers MISS with another
\* payload than the first and replaces the still fresh entry of the first.
C19_Witness ==
    /\ Done
    /\ resp.xcache = "MISS"
    /\ finished.found = "fresh"
    /\ finished.prior.key = KeyOf(finished)
    /\ finished.prior.xcache = "MISS"
    /\ finished.prior.data # resp.data
    /\ cache[KeyOf(finished)] = [data |-> resp.data, timestamp |-> now]

\* C20 (state): while a request waits in a backoff delay or for the
\* upstream, another request can take its next step: be accepted, check
\* the cache, have its fetch settle, read the body and be answered.
C20_OthersCanStep ==
    \A r, q \in Slots :
       (r # q /\ inv[r].pc \in {"sleeping", "fetching"})
          => /\ inv[q].pc = "idle"
                   => ENABLED (\E s \in Slots, b \in Bodies : Invoke(s, "sr-secret", b))
             /\ inv[q].pc = "parsing" => ENABLED ParseBody(q)
             /\ inv[q].pc = "fetching" => ENABLED FetchSettles(q, 200, FALSE)
             /\ inv[q].pc = "json" => ENABLED ReadJson(q, "v1")
             /\ inv[q].pc = "text" => ENABLED ReadText(q)
             /\ (inv[q].pc = "sleeping" /\ now >= inv[q].wakeAt)
                   => ENABLED SleepDone(q)

\* C20 (step): a step of a request's retry sequence (a failed attempt, a
\* backoff that ends) changes nothing of any other request.
C20_OwnDelayStep ==
    \A r \in Slots :
       (inv[r].pc \in {"sleeping", "fetching"} /\ inv'[r] # inv[r])
          => \A q \in Slots \ {r} : inv'[q] = inv[q]

\* C20: a request that waits in a backoff delay or for the upstream does
\* not keep other requests, hits or misses, from proceeding and
\* completing; its retries delay only its own response.
C20_RetriesDoNotBlock == []C20_OthersCanStep /\ [][C20_OwnDelayStep]_vars

\* A request is answered from the cache while another one is in the middle
\* of a backoff delay.
C20_Witness ==
    /\ Done
    /\ resp.xcache = "HIT"
    /\ \E r \in Slots : inv[r].pc = "sleeping" /\ now < inv[r].wakeAt

\* C21: 429 answers and thrown fetches count on one attempt counter:
\* whatever the mix of the two, a request makes at most 1 + MAX_RETRIES = 4
\* attempts, numbered 0..3, each failure but the last one is followed by
\* exactly one backoff, the delay after attempt n is RETRY_DELAYS[n]
\* whichever way attempt n failed, and the schedule is indexed with 0..2
\* only.
C21_OneAttemptCounter ==
    \A rec \in Records :
       /\ rec.attempt \in 0..3
       /\ rec.calls <= 4
       /\ Len(rec.delays) <= 3
       /\ \A i \in 1..Len(rec.delays) : rec.delays[i] = <<1000, 2000, 4000>>[i]
       /\ rec.pc \in {"fetching", "json", "text"}
             => (rec.calls = rec.attempt + 1 /\ Len(rec.delays) = rec.attempt)
       /\ rec.pc = "sleeping"
             => /\ rec.attempt \in 0..2
                /\ rec.calls = rec.attempt + 1
                /\ Len(rec.delays) = rec.attempt + 1
                /\ rec.nFailed = rec.attempt + 1
       /\ (rec.pc = "done" /\ rec.calls > 0)
             => (rec.calls = rec.attempt + 1 /\ Len(rec.delays) = rec.attempt)

\* A 429 and a thrown fetch were both retried, and the fourth attempt
\* failed too.
C21_Witness ==
    /\ Done
    /\ finished.failures = "mixed"
    /\ finished.calls = 4
    /\ finished.nFailed = 4
    /\ finished.delays = <<1000, 2000, 4000>>

\* C22 (state): a response is returned only when the retry sequence of
\* the request is over: no upstream call was started, or the last attempt
\* ended in a status that is not retried, or in a 429 or a throw on
\* attempt MAX_RETRIES; a request with an attempt pending has no outcome.
C22_ResponseAfterTerminal ==
    /\ Done
          => /\ resp.status # 0
             /\ \/ finished.calls = 0
                \/ finished.final \in {200, 404, 500}
                \/ finished.final \in {429, NetworkError} /\ finished.attempt = 3
    /\ \A r \in Slots : inv[r].pc \in {"fetching", "sleeping"} => inv[r].final = -1

\* C22 (step): an invocation ends in the step that returns its response,
\* and in no other.
C22_OneResponseStep ==
    \A r \in Slots :
       (inv[r].pc # "idle" /\ inv'[r].pc = "idle")
          => /\ finished'.pc = "done"
             /\ resp'.status # 0
             /\ finished'.body = inv[r].body
             /\ \A q \in Slots \ {r} : inv'[q] = inv[q]

\* C22: every request gets exactly one response, after its retry sequence
\* has ended; when every await settles and every timer fires, every
\* request is answered eventually.
C22_Terminates ==
    /\ []C22_ResponseAfterTerminal
    /\ [][C22_OneResponseStep]_vars
    /\ \A r \in Slots : (inv[r].pc # "idle") ~> (inv[r].pc = "idle")

\* A request is answered after its fourth attempt, the timers having
\* taken the clock to 7000.
C22_Witness ==
    /\ Done
    /\ finished.calls = 4
    /\ now >= 7000
    /\ resp.status # 0

\* C23 (state): every cache entry is stored under the key of a request
\* (endpoint, params) and holds a parsed upstream body and a time of
\* writing that is not in the future.
C23_EntriesAreFetched ==
    \A k \in DOMAIN cache :
       /\ cache[k].data \in Payloads
       /\ cache[k].timestamp <= now
       /\ \E b \in Bodies :
             /\ ~b.malformed
             /\ b.endpoint \notin {Undefined, ""}
             /\ k = <<b.endpoint, "-">> \o JSONStringify(b.params)

\* C23 (step): the cache changes only in the step in which a request that
\* got a 2xx response parses its body: the entry of exactly that request's
\* key becomes that body stamped with the current time, every other entry
\* stays as it was.
C23_WriteStep ==
    cache' # cache
       => \E r \in Slots :
             /\ inv[r].pc = "json"
             /\ inv[r].final = 200
             /\ inv'[r].pc = "idle"
             /\ finished'.payload \in Payloads
             /\ LET k == <<inv[r].body.endpoint, "-">> \o JSONStringify(inv[r].body.params)
                IN  cache' = [x \in DOMAIN cache \cup {k} |->
                                 IF x = k
                                 THEN [data |-> finished'.payload, timestamp |-> now]
                                 ELSE cache[x]]

\* C23: the cache starts empty, and each entry was written by a request
\* that got a 2xx upstream response for exactly its key, holding the
\* parsed body and the time of the write; nothing else inserts or alters
\* entries.
C23_CacheHoldsFetchedOnly ==
    /\ cache = << >>
    /\ []C23_EntriesAreFetched
    /\ [][C23_WriteStep]_vars

\* An entry written earlier is in the cache, nothing in flight.
C23_Witness ==
    /\ NoneInFlight
    /\ \E k \in DOMAIN cache : cache[k].data = "v2" /\ cache[k].timestamp < now

\* C24 (the step that answers X-Cache: MISS): with the new entry stored, if
\* the cache holds more than 100 entries, exactly the entries older than
\* 2 * 60000 ms are removed and the count drops by their number; if it
\* holds 100 or fewer, no entry is removed, however old.
C24_CountStep ==
    resp'.xcache = "MISS"
       => LET k      == KeyOf(finished')
              stored == DOMAIN cache \cup {k}
              stale  == {x \in DOMAIN cache \ {k} : now - cache[x].timestamp > 2 * 60000}
          IN  IF Cardinality(stored) > 100
              THEN /\ DOMAIN cache' = stored \ stale
                   /\ Cardinality(DOMAIN cache') = Cardinality(stored) - Cardinality(stale)
              ELSE DOMAIN cache' = stored

\* C24: a successful fetch that brings the count above 100 removes every
\* entry older than 2 * TTL and nothing else; at 100 or fewer entries
\* after the insertion nothing is removed.
C24_SweepReducesByStale == [][C24_CountStep]_vars

\* The 101st entry is stored while 50 of the 100 older ones are stale:
\* 51 entries are left.
C24_Witness ==
    /\ Done
    /\ resp.xcache = "MISS"
    /\ finished.evicted = 50
    /\ Cardinality(DOMAIN cache) = 51

\* The backoff a request has accumulated: the sum of the delays it slept.
RECURSIVE TotalDelay(_)
TotalDelay(delays) ==
    IF delays = <<>> THEN 0 ELSE Head(delays) + TotalDelay(Tail(delays))

\* C25: whatever the upstream outcomes, the backoff added to one request
\* is at most 1000 + 2000 + 4000 = 7000 ms, and it is 7000 ms exactly
\* when the request used all three retries.
C25_BackoffAtMost7000 ==
    \A rec \in Records :
       /\ TotalDelay(rec.delays) <= 7000
       /\ TotalDelay(rec.delays) = 7000 <=> Len(rec.delays) = 3
       /\ Len(rec.delays) = 3 <=> (rec.attempt = 3 \/ (rec.pc = "sleeping" /\ rec.attempt = 2))

\* A request answered 200 on its fourth attempt has slept 7000 ms.
C25_Witness ==
    /\ Done
    /\ finished.final = 200
    /\ finished.calls = 4
    /\ TotalDelay(finished.delays) = 7000

\* C26 (one step): the step that answers X-Cache: HIT leaves the cache as
\* it was; an entry that is replaced is replaced by the step that answers
\* X-Cache: MISS for its key, stamped with the current time; an entry that
\* is removed is removed by a step that answers X-Cache: MISS, and was
\* older than 2 * 60000 ms.
C26_FrameStep ==
    /\ resp'.xcache = "HIT" => cache' = cache
    /\ \A k \in DOMAIN cache :
          /\ (k \in DOMAIN cache' /\ cache'[k] # cache[k])
                => /\ resp'.xcache = "MISS"
                   /\ k = <<finished'.endpoint, "-">> \o JSONStringify(finished'.params)
                   /\ finished'.final = 200
                   /\ cache'[k].timestamp = now
          /\ k \notin DOMAIN cache'
                => /\ resp'.xcache = "MISS"
                   /\ now - cache[k].timestamp > 2 * 60000

\* C26 (state): a request answered X-Cache: HIT was served an entry that
\* is still in the cache, unchanged, and was written less than 60000 ms
\* ago.
C26_HitWithinWindow ==
    (Done /\ resp.xcache = "HIT")
       => LET k == <<finished.endpoint, "-">> \o JSONStringify(finished.params)
          IN  /\ k \in DOMAIN cache
              /\ cache[k].data = resp.data
              /\ now - cache[k].timestamp < 60000

\* C26: a HIT neither refreshes nor replaces nor removes an entry, so the
\* freshness window is 60 s from the write and reads do not extend it; an
\* entry changes only by a later successful fetch or a sweep.
C26_HitLeavesCache == []C26_HitWithinWindow /\ [][C26_FrameStep]_vars

\* An entry written at 1000 is served as a HIT at 59999, still stamped
\* 1000.
C26_Witness ==
    /\ Done
    /\ resp.xcache = "HIT"
    /\ now = 59999
    /\ KeyOf(finished) \in DOMAIN cache
    /\ cache[KeyOf(finished)].timestamp = 1000

\* The values of the api_key parameters of the request that is sent.
ApiKeysSent(url) ==
    LET sp == SearchParams(SentQuery(UrlPieces(url)))
    IN  {sp[i][2] : i \in {j \in 1..Len(sp) : sp[j][1] = <<"api_key">>}}

\* C27 as claimed: the URL of every upstream call carries the configured
\* credential, and nothing else, as its api_key query parameter, together
\* with each of the caller's other params.
C27_AsClaimed ==
    \A rec \in Records : \A url \in rec.urls :
       /\ ApiKeysSent(url) = {<<rec.apiKey>>}
       /\ \A i \in 1..Len(rec.params) :
             rec.params[i][1] # "api_key"
                => \E j \in 1..Len(SearchParams(SentQuery(UrlPieces(url)))) :
                      SearchParams(SentQuery(UrlPieces(url)))[j]
                         = << <<rec.params[i][1]>>, <<rec.params[i][2]>> >>

\* C27 (what does hold): in the query string the handler builds from
\* params, the only api_key member is the configured credential, and the
\* caller's other params are all there.
C27_QueryAsBuilt ==
    \A rec \in Records : \A url \in rec.urls :
       /\ \A i \in 1..Len(url.query) :
             url.query[i][1] = "api_key" => url.query[i][2] = rec.apiKey
       /\ \E i \in 1..Len(url.query) : url.query[i] = <<"api_key", rec.apiKey>>
       /\ \A i \in 1..Len(rec.params) :
             rec.params[i][1] # "api_key"
                => \E j \in 1..Len(url.query) : url.query[j] = rec.params[i]

\* A request whose params name api_key has been fetched.
C27_Witness ==
    /\ Done
    /\ finished.params = ParamsWithKey
    /\ finished.calls >= 1
    /\ \E url \in finished.urls : ApiKeysSent(url) = {<<"sr-secret">>}

\* C28: one fetch of a data hook makes at most 1 + retry proxy
\* invocations (4 for useLiveMatches, 3 for the other hooks), each of at
\* most 4 upstream calls: at most 16 upstream calls for useLiveMatches
\* and 12 for the others; against an upstream that answers 429 every
\* time, the fetch fails after exactly that many.
C28_UpstreamCallsBounded ==
    query.pc # "idle"
       => LET most == IF query.hook = "useLiveMatches" THEN 4 ELSE 3
          IN  /\ query.invocations <= most
              /\ query.invocations + (IF inv[1].pc # "idle" THEN 1 ELSE 0) <= most
              /\ query.upstreamCalls <= 4 * query.invocations
              /\ query.upstreamCalls + inv[1].calls <= 4 * most
              /\ (query.pc = "error" /\ query.only429)
                    => (query.invocations = most /\ query.upstreamCalls = 4 * most)
              /\ (query.pc = "error") => query.invocations = most

\* useLiveMatches has failed after 16 upstream calls that were all
\* answered 429.
C28_Witness ==
    /\ query.pc = "error"
    /\ query.hook = "useLiveMatches"
    /\ query.only429
    /\ query.invocations = 4
    /\ query.upstreamCalls = 16

\* C29 (state): once the mount effect has run, apiKey is set exactly when
\* localStorage holds the key, both hold the same text, and the text is
\* not empty and neither starts nor ends with white space.
C29_StateMatchesStorage ==
    page.mounted
       => /\ page.apiKey.has <=> page.storage.has
          /\ page.apiKey = page.storage
          /\ page.apiKey.has
                => /\ page.apiKey.text # <<>>
                   /\ page.apiKey.text[1] # " "
                   /\ page.apiKey.text[Len(page.apiKey.text)] # " "

\* C29 (step): a submit of an empty or all-blank field changes neither
\* apiKey nor localStorage; any other submit sets both to the field's
\* text without its outer white space; a logout clears both.
C29_SubmitLogoutStep ==
    (page.mounted /\ (page'.apiKey # page.apiKey \/ page'.storage # page.storage))
       => \/ /\ ~page.apiKey.has
             /\ page'.apiKey.has
             /\ page'.storage.has
             /\ page'.apiKey.text = page'.storage.text
             /\ \E i, j \in 1..Len(page.input) :
                   /\ page'.apiKey.text = SubSeq(page.input, i, j)
                   /\ page.input[i] # " "
                   /\ page.input[j] # " "
                   /\ \A k \in 1..Len(page.input) :
                         (k < i \/ k > j) => page.input[k] = " "
          \/ /\ page.apiKey.has
             /\ ~page'.apiKey.has
             /\ ~page'.storage.has

C29_BlankSubmitStep ==
    (page.mounted /\ ~page.apiKey.has /\ \A i \in 1..Len(page.input) : page.input[i] = " ")
       => (page'.apiKey = page.apiKey /\ page'.storage = page.storage)

\* C29: after the mount effect and any sequence of submits and logouts,
\* apiKey is non-null exactly when localStorage holds
\* 'sportradar_api_key', with the same trimmed non-empty value; a blank
\* submit changes neither, a valid submit sets both, logout clears both.
C29_KeyStateInSync ==
    /\ []C29_StateMatchesStorage
    /\ [][C29_SubmitLogoutStep /\ C29_BlankSubmitStep]_vars

\* A key with a blank inside has been submitted: state and storage hold
\* it, and the form is gone.
C29_Witness ==
    /\ page.mounted
    /\ page.apiKey = Some(<<"a", " ", "b">>)
    /\ page.storage = Some(<<"a", " ", "b">>)
    /\ page.input = <<>>

\* C30: transformMatchData gives every match exactly one of the statuses
\* 'live', 'scheduled', 'finished', and 'scheduled' when
\* sport_event_status is absent; the fixtures list holds every schedule
\* of its response, in order, and the results list is empty, whatever
\* the responses say about the matches.
C30_FixturesAllResultsNone ==
    /\ \A i \in 1..Len(board.liveMatchesData.items) :
          /\ liveMatches[i].status \in {"live", "scheduled", "finished"}
          /\ ~board.liveMatchesData.items[i].sport_event_status.has
                => liveMatches[i].status = "scheduled"
          /\ liveMatches[i].status = "live"
                <=> board.liveMatchesData.items[i].sport_event_status.match_status
                       \in {"live", "1st_half", "2nd_half", "overtime", "penalties"}
          /\ liveMatches[i].status = "finished"
                <=> board.liveMatchesData.items[i].sport_event_status.match_status
                       \in {"closed", "ended", "aet", "ft"}
    /\ Len(liveMatches) = Len(board.liveMatchesData.items)
    /\ Len(fixtures) = Len(board.fixturesData.items)
    /\ \A i \in 1..Len(fixtures) :
          /\ fixtures[i].id = board.fixturesData.items[i].sport_event.id
          /\ fixtures[i].status = "scheduled"
    /\ results = <<>>

\* Both schedules responses list two matches the upstream reports as
\* closed: two fixtures, no results.
C30_Witness ==
    /\ Len(board.resultsData.items) = 2
    /\ \A i \in 1..2 : board.resultsData.items[i].sport_event_status = Status("closed")
    /\ Len(board.fixturesData.items) = 2
    /\ \A i \in 1..2 : board.fixturesData.items[i].sport_event_status = Status("closed")
    /\ Len(fixtures) = 2
    /\ results = <<>>
    /\ Len(liveMatches) = 1
    /\ liveMatches[1].status = "finished"

====
